---- MODULE Spec2Model ----
(***************************************************************************)
(* Model of src/main.py: a FastAPI application over two SQLAlchemy tables  *)
(* (users, commitments) and a signed-cookie session per browser.           *)
(*                                                                         *)
(* State that outlives the process is part of the initial state: the       *)
(* database named by DATABASE_URL (create_all only creates missing tables, *)
(* rows already there stay) and the session cookies browsers hold, signed  *)
(* with SECRET_KEY.  Every route handler is one action; the response of    *)
(* the last request is kept in resp.                                       *)
(*                                                                         *)
(* Python strings are sequences of one-character strings.  A name that is  *)
(* neither a parameter of the handler nor a module global raises           *)
(* NameError; an attribute a class does not define raises AttributeError;  *)
(* an exception that leaves a handler is answered with status 500.         *)
(***************************************************************************)
EXTENDS Integers, Sequences, FiniteSets, TLC

\* ------------------------------------------------------------------ bounds
MaxLen == 2            \* longest string typed into a text field
MaxPw == 1             \* longest password typed
MaxUsers == 2          \* rows the users table can hold at start
MaxCommitments == 2    \* rows the commitments table can hold at start
NumClients == 1        \* browsers (one session cookie each)

\* --------------------------------------------------------------- strings
Chars == {" ", "a"}
Str == UNION {[1..n -> Chars] : n \in 0..MaxLen}
Passwords == UNION {[1..n -> {"p"}] : n \in 0..MaxPw}

IsSpace(ch) == ch = " "

RECURSIVE lstrip(_)
lstrip(s) == IF s # <<>> /\ IsSpace(Head(s)) THEN lstrip(Tail(s)) ELSE s

RECURSIVE rstrip(_)
rstrip(s) ==
  IF s # <<>> /\ IsSpace(s[Len(s)]) THEN rstrip(SubSeq(s, 1, Len(s) - 1)) ELSE s

\* the text as typed, not stripped
strip_Forgotten(s) == s

\* str.strip()
strip(s) == rstrip(lstrip(s))

\* ------------------------------------------------- names and attributes
\* names bound at module level (imports, assignments, classes, functions)
Globals ==
  {"os", "datetime", "Optional", "FastAPI", "Request", "Form", "Depends",
   "HTTPException", "RedirectResponse", "StaticFiles", "Jinja2Templates",
   "CryptContext", "SessionMiddleware", "HTTP_303_SEE_OTHER", "Column",
   "Integer", "String", "DateTime", "ForeignKey", "create_engine", "Text",
   "sessionmaker", "declarative_base", "relationship", "DBSession",
   "load_dotenv", "DATABASE_URL", "SECRET_KEY", "pwd_context", "engine",
   "SessionLocal", "Base", "User", "Commitment", "app", "templates",
   "get_db", "hash_password", "verify_password", "get_current_user"}

\* parameters of each route handler
Params ==
  [home |-> {"request"},
   signup_get |-> {"request"},
   signup_post |-> {"request", "username", "password"},
   login_get |-> {"request"},
   login_post |-> {"request", "username", "password"},
   logout |-> {"request"},
   dashboard |-> {"request", "db"},
   commitment_new_get |-> {"request", "db"},
   commitment_new_post |-> {"request", "commitment_text", "db"},
   commitment_resolve_get |-> {"request", "commitment_id", "db"},
   commitment_resolve_post |->
     {"request", "commitment_id", "status", "outcome_notes", "db"}]

\* local variables a handler has assigned before the use in question
Defined(handler, name, locals) ==
  name \in Params[handler] \cup locals \cup Globals

\* columns and relationships of the mapped classes
UserColumns == {"id", "username", "created_at", "commitments"}
CommitmentColumns == {"id", "user_id", "commitment_text", "created_at", "user"}

\* positional parameters of get_current_user
GetCurrentUserArity == 2

\* attributes of the objects the handlers call methods on
TemplatesAttrs == {"TemplateResponse", "get_template", "env"}
RequestAttrs ==
  {"session", "url", "headers", "cookies", "method", "form", "scope",
   "keys", "items", "values", "get"}

\* ------------------------------------------------------------ responses
NoShown == <<>>
RedirectResponse(url, code) ==
  [code |-> code, target |-> url, error |-> "", shown |-> NoShown]
TemplateResponse(name, error, shown) ==
  [code |-> 200, target |-> name, error |-> error, shown |-> shown]
\* an exception that escapes the handler
ServerError(exc) ==
  [code |-> 500, target |-> exc, error |-> "", shown |-> NoShown]

HTTP_303_SEE_OTHER == 303
HTTP_307_DEFAULT == 307

\* ------------------------------------------------------------- passwords
BcryptLimit == 72
hash_password(password) ==
  [scheme |-> "bcrypt",
   of |-> SubSeq(password, 1, IF Len(password) < BcryptLimit
                              THEN Len(password) ELSE BcryptLimit)]
verify_password(plain, hashed) == hashed = hash_password(plain)

\* ----------------------------------------------------------------- state
VARIABLES
  users,        \* rows of table users: [id, username]
  commitments,  \* rows of table commitments: [id, user_id, commitment_text]
  session,      \* session[c]: "user_id" of browser c's cookie, 0 = not set
  resp          \* the last request and its response

vars == <<users, commitments, session, resp>>

Clients == 1..NumClients
NoUser == 0

\* username of the i-th row present at start
UserName(i) == [j \in 1..i |-> "a"]
UsersTable(n) == {[id |-> i, username |-> UserName(i)] : i \in 1..n}
CommitmentsTable(owner) ==
  {[id |-> i, user_id |-> owner[i], commitment_text |-> <<"a">>] :
     i \in DOMAIN owner}

NoArgs ==
  [username |-> <<>>, password |-> <<>>, commitment_text |-> <<>>,
   declared_confidence_pct |-> 0, deadline |-> "", commitment_id |-> 0,
   status |-> "", outcome_notes |-> <<>>]

Request(route, c, args) == [route |-> route, client |-> c, args |-> args]
NoOut == [code |-> 0, target |-> "", error |-> "", shown |-> NoShown]

Init ==
  /\ \E n \in 0..MaxUsers :
       /\ users = UsersTable(n)
       /\ \E m \in 0..MaxCommitments :
            \E owner \in [1..m -> 1..n] :
              commitments = CommitmentsTable(owner)
  /\ session \in [Clients -> {NoUser} \cup 1..MaxUsers]
  /\ resp = [req |-> Request("none", 0, NoArgs), out |-> NoOut]

\* ---------------------------------------------------------------- helpers
Respond(route, c, args, out) ==
  resp' = [req |-> Request(route, c, args), out |-> out]

\* get_current_user trusting the cookie: the row is not looked up
get_current_user_Trusting(c) ==
  LET user_id == session[c] IN
    IF user_id = NoUser THEN {}
    ELSE {[id |-> user_id, username |-> <<>>]}

\* the User the session cookie of browser c resolves to: a set with at most
\* one row, empty for None
get_current_user(c) ==
  LET user_id == session[c] IN
    IF user_id = NoUser THEN {} ELSE {u \in users : u.id = user_id}

\* autoincrement primary keys
NextUserId == IF users = {} THEN 1
              ELSE 1 + CHOOSE i \in {u.id : u \in users} :
                         \A u \in users : u.id <= i
NextCommitmentId == IF commitments = {} THEN 1
                    ELSE 1 + CHOOSE i \in {k.id : k \in commitments} :
                               \A k \in commitments : k.id <= i

\* ----------------------------------------------------------------- routes
\* GET /
home(c) ==
  /\ Respond("home", c, NoArgs,
       IF GetCurrentUserArity # 1 THEN ServerError("TypeError")
       ELSE IF get_current_user(c) # {}
            THEN RedirectResponse("/dashboard", HTTP_307_DEFAULT)
            ELSE RedirectResponse("/login", HTTP_307_DEFAULT))
  /\ UNCHANGED <<users, commitments, session>>

\* GET /signup
signup_get(c) ==
  /\ Respond("signup_get", c, NoArgs,
       TemplateResponse("signup.html", "", NoShown))
  /\ UNCHANGED <<users, commitments, session>>

\* the request's input is valid for a signup: non-empty and not yet taken
ValidSignupInput(username, password) ==
  /\ strip(username) # <<>>
  /\ password # <<>>
  /\ ~ \E u \in users : u.username = strip(username)

\* POST /signup that inserts without looking for the username
signup_post_NoExistingCheck(c, username, password) ==
  LET uname == strip(username)
      args == [NoArgs EXCEPT !.username = username, !.password = password]
  IN
  IF uname = <<>> \/ password = <<>>
  THEN /\ Respond("signup_post", c, args,
            TemplateResponse("signup.html",
                             "Username and password required.", NoShown))
       /\ UNCHANGED <<users, commitments, session>>
  ELSE /\ users' = users \cup {[id |-> NextUserId, username |-> uname]}
       /\ session' = [session EXCEPT ![c] = NextUserId]
       /\ Respond("signup_post", c, args,
            RedirectResponse("/dashboard", HTTP_303_SEE_OTHER))
       /\ UNCHANGED commitments

\* POST /signup
signup_post(c, username, password) ==
  LET uname == strip(username)
      args == [NoArgs EXCEPT !.username = username, !.password = password]
  IN
  IF uname = <<>> \/ password = <<>>
  THEN /\ Respond("signup_post", c, args,
               TemplateResponse("signup.html",
                                "Username and password required.", NoShown))
          /\ UNCHANGED <<users, commitments, session>>
     ELSE IF ~ Defined("signup_post", "db", {})
     THEN /\ Respond("signup_post", c, args, ServerError("NameError"))
          /\ UNCHANGED <<users, commitments, session>>
     ELSE IF \E u \in users : u.username = uname
     THEN /\ Respond("signup_post", c, args,
               TemplateResponse("signup.html", "Username already exists.",
                                NoShown))
          /\ UNCHANGED <<users, commitments, session>>
     ELSE IF ~ ({"username", "password_hash"} \subseteq UserColumns)
     THEN /\ Respond("signup_post", c, args, ServerError("TypeError"))
          /\ UNCHANGED <<users, commitments, session>>
     ELSE /\ users' = users \cup {[id |-> NextUserId, username |-> uname]}
          /\ session' = [session EXCEPT ![c] = NextUserId]
          /\ Respond("signup_post", c, args,
               RedirectResponse("/dashboard", HTTP_303_SEE_OTHER))
          /\ UNCHANGED commitments

\* GET /login
login_get(c) ==
  /\ Respond("login_get", c, NoArgs,
       IF "Templateresponse" \notin TemplatesAttrs
       THEN ServerError("AttributeError")
       ELSE TemplateResponse("login.html", "", NoShown))
  /\ UNCHANGED <<users, commitments, session>>

\* POST /login that binds the session before the credentials are checked
LoginPostResult_BindsBeforeCheck(rows, username, password) ==
  LET found == {u \in rows : u.username = username} IN
  IF found = {}
  THEN [out |-> ServerError("NameError"), user_id |-> NoUser]
  ELSE [out |-> ServerError("NameError"),
        user_id |-> (CHOOSE u \in found : TRUE).id]

\* POST /login: the response, and the user id the session is bound to
\* (NoUser when the session is left alone), over the rows of table users
LoginPostResult(rows, username, password) ==
  LET found == {u \in rows : u.username = username}
      refuse(out) == [out |-> out, user_id |-> NoUser]
  IN
  IF ~ Defined("login_post", "db", {})
  THEN refuse(ServerError("NameError"))
  ELSE IF found = {}
  THEN refuse(TemplateResponse("login.html", "Invalid credentials.", NoShown))
  ELSE IF "password_hash" \notin UserColumns
  THEN refuse(ServerError("AttributeError"))
  ELSE LET user == CHOOSE u \in found : TRUE IN
       IF ~ verify_password(password, user.password_hash)
       THEN refuse(TemplateResponse("login.html", "Invalid credentials.",
                                    NoShown))
       ELSE [out |-> RedirectResponse("/dashboard", HTTP_303_SEE_OTHER),
             user_id |-> user.id]

login_post(c, username, password) ==
  LET r == LoginPostResult(users, username, password) IN
  /\ Respond("login_post", c,
       [NoArgs EXCEPT !.username = username, !.password = password], r.out)
  /\ session' = IF r.user_id = NoUser THEN session
                ELSE [session EXCEPT ![c] = r.user_id]
  /\ UNCHANGED <<users, commitments>>

\* GET /logout
logout(c) ==
  IF "clear" \notin RequestAttrs
  THEN /\ Respond("logout", c, NoArgs, ServerError("AttributeError"))
       /\ UNCHANGED <<users, commitments, session>>
  ELSE /\ session' = [session EXCEPT ![c] = NoUser]
       /\ Respond("logout", c, NoArgs,
            RedirectResponse("/login", HTTP_303_SEE_OTHER))
       /\ UNCHANGED <<users, commitments>>

\* GET /dashboard
\* the rows a query on Commitment filtered by owner returns, in some order;
\* Commitment maps no deadline column to order them by
RECURSIVE AnyOrder(_)
AnyOrder(S) ==
  IF S = {} THEN <<>>
  ELSE LET k == CHOOSE x \in S : \A y \in S : x.id <= y.id
       IN <<k.id>> \o AnyOrder(S \ {k})

dashboard(c) ==
  /\ Respond("dashboard", c, NoArgs,
       IF get_current_user(c) = {}
       THEN RedirectResponse("/login", HTTP_307_DEFAULT)
       ELSE IF ~ Defined("dashboard", "user_id", {"user"})
       THEN ServerError("NameError")
       ELSE IF "deadline" \notin CommitmentColumns
       THEN ServerError("AttributeError")
       ELSE LET user == CHOOSE u \in get_current_user(c) : TRUE
            IN TemplateResponse("dashboard.html", "",
                 AnyOrder({k \in commitments : k.user_id = user.id})))
  /\ UNCHANGED <<users, commitments, session>>

\* GET /commitments/new
commitment_new_get(c) ==
  /\ Respond("commitment_new_get", c, NoArgs,
       IF get_current_user(c) = {}
       THEN RedirectResponse("/login", HTTP_307_DEFAULT)
       ELSE TemplateResponse("commitment_new.html", "", NoShown))
  /\ UNCHANGED <<users, commitments, session>>

\* datetime.fromisoformat accepts the string
Deadlines == {"2025-01-01T00:00:00", "soon"}
IsIsoFormat(deadline) == deadline = "2025-01-01T00:00:00"

\* max(0, min(100, pct))
PctInputs == {-5, 50, 150}
Min2(a, b) == IF a < b THEN a ELSE b
Max2(a, b) == IF a > b THEN a ELSE b
ClampPct(pct) == Max2(0, Min2(100, pct))

\* POST /commitments/new; the form posts commitment_text,
\* declared_confidence_pct and deadline, the handler binds commitment_text
commitment_new_post(c, commitment_text, declared_confidence_pct, deadline) ==
  LET args == [NoArgs EXCEPT !.commitment_text = commitment_text,
                 !.declared_confidence_pct = declared_confidence_pct,
                 !.deadline = deadline]
      name == "commitment_new_post"
  IN
  IF get_current_user(c) = {}
  THEN /\ Respond(name, c, args, RedirectResponse("/login", HTTP_307_DEFAULT))
       /\ UNCHANGED <<users, commitments, session>>
  ELSE IF strip(commitment_text) = <<>>
  THEN /\ Respond(name, c, args,
            TemplateResponse("commitment_new.html",
                             "Commitment text required.", NoShown))
       /\ UNCHANGED <<users, commitments, session>>
  \* try: any exception, the NameError included, is caught
  ELSE IF ~ Defined(name, "deadline", {"user"}) \/ ~ IsIsoFormat(deadline)
  THEN /\ Respond(name, c, args,
            TemplateResponse("commitment_new.html",
                             "Invalid deadline format.", NoShown))
       /\ UNCHANGED <<users, commitments, session>>
  ELSE IF ~ Defined(name, "declared_confidence_pct", {"user", "dt"})
  THEN /\ Respond(name, c, args, ServerError("NameError"))
       /\ UNCHANGED <<users, commitments, session>>
  ELSE IF ~ ({"user_id", "commitment_text", "declared_confidence_pct",
              "deadline"} \subseteq CommitmentColumns)
  THEN /\ Respond(name, c, args, ServerError("TypeError"))
       /\ UNCHANGED <<users, commitments, session>>
  ELSE LET user == CHOOSE u \in get_current_user(c) : TRUE IN
       /\ commitments' = commitments \cup
            {[id |-> NextCommitmentId, user_id |-> user.id,
              commitment_text |-> strip(commitment_text),
              declared_confidence_pct |-> ClampPct(declared_confidence_pct),
              deadline |-> deadline]}
       /\ Respond(name, c, args,
            RedirectResponse("/dashboard", HTTP_303_SEE_OTHER))
       /\ UNCHANGED <<users, session>>

\* ids a request path can carry: every row's id and one that matches no row
CommitmentIds == 1..(MaxCommitments + 1)
Statuses == {"completed", "failed", "postponed"}
\* Optional[str]: <<>> is None, <<s>> is the string s
None == <<>>
Some(s) == <<s>>
Notes == {None} \cup {Some(s) : s \in Str}

\* filter(Commitment.id, Commitment.user_id == user.id): the id column itself
\* is the condition, true of every non-zero id; commitment_id is not used
ResolveGetQuery(user_id, commitment_id) ==
  {k \in commitments : k.id # 0 /\ k.user_id = user_id}

\* what GET /commitments/{id}/resolve can answer: a store that wants a
\* boolean condition rejects the statement, one that takes an integer
\* returns the first matching row, in no stated order
ResolveGetOutcomes(c, commitment_id) ==
  IF get_current_user(c) = {}
  THEN {RedirectResponse("/login", HTTP_307_DEFAULT)}
  ELSE LET user == CHOOSE u \in get_current_user(c) : TRUE
           rows == ResolveGetQuery(user.id, commitment_id)
       IN {ServerError("ProgrammingError")} \cup
          (IF rows = {}
           THEN {RedirectResponse("/dashboard", HTTP_307_DEFAULT)}
           ELSE {TemplateResponse("commitment_resolve.html", "", <<k.id>>) :
                   k \in rows})

\* GET /commitments/{commitment_id}/resolve
commitment_resolve_get(c, commitment_id) ==
  /\ \E out \in ResolveGetOutcomes(c, commitment_id) :
       Respond("commitment_resolve_get", c,
               [NoArgs EXCEPT !.commitment_id = commitment_id], out)
  /\ UNCHANGED <<users, commitments, session>>

\* Commitment == user.id: a class compared with an integer
CommitmentEqualsUserId(user_id) == FALSE

\* the lookup by id alone, without the owner condition
ResolvePostQuery_ByIdOnly(user_id, commitment_id) ==
  {k \in commitments : k.id = commitment_id}

\* filter(Commitment.id == commitment_id, Commitment == user.id)
ResolvePostQuery(user_id, commitment_id) ==
  {k \in commitments : k.id = commitment_id /\ CommitmentEqualsUserId(user_id)}

\* (outcome_notes or "").strip() or None
NotesValue(outcome_notes) ==
  LET s == IF outcome_notes = None THEN <<>> ELSE outcome_notes[1]
  IN IF strip(s) = <<>> THEN None ELSE Some(strip(s))

\* POST /commitments/{commitment_id}/resolve
commitment_resolve_post(c, commitment_id, status, outcome_notes) ==
  LET args == [NoArgs EXCEPT !.commitment_id = commitment_id,
                 !.status = status, !.outcome_notes = outcome_notes]
      name == "commitment_resolve_post"
      current == get_current_user(c)
  IN
  IF current = {}
  THEN /\ Respond(name, c, args, RedirectResponse("/login", HTTP_307_DEFAULT))
       /\ UNCHANGED <<users, commitments, session>>
  ELSE LET user == CHOOSE u \in current : TRUE
           rows == ResolvePostQuery(user.id, commitment_id)
       IN
       IF rows = {}
       THEN /\ Respond(name, c, args,
                 RedirectResponse("/dashboard", HTTP_307_DEFAULT))
            /\ UNCHANGED <<users, commitments, session>>
       ELSE IF "status" \notin CommitmentColumns
       THEN /\ Respond(name, c, args, ServerError("AttributeError"))
            /\ UNCHANGED <<users, commitments, session>>
       ELSE \E commit \in rows :
            IF commit.status # "open"
            THEN /\ Respond(name, c, args,
                      TemplateResponse("commitment_resolve.html",
                        "Only open commitments can be resolved.",
                        <<commit.id>>))
                 /\ UNCHANGED <<users, commitments, session>>
            ELSE IF status \notin {"completed", "failed"}
            THEN /\ Respond(name, c, args,
                      TemplateResponse("commitment_resolve.html",
                        "Invalid status selected.", <<commit.id>>))
                 /\ UNCHANGED <<users, commitments, session>>
            ELSE /\ commitments' = (commitments \ {commit}) \cup
                      {[commit EXCEPT !.status = status,
                          !.outcome_notes = NotesValue(outcome_notes)]}
                 /\ Respond(name, c, args,
                      RedirectResponse("/dashboard", HTTP_303_SEE_OTHER))
                 /\ UNCHANGED <<users, session>>

\* ------------------------------------------------------------ the program
Next ==
  \E c \in Clients :
    \/ home(c)
    \/ signup_get(c)
    \/ \E username \in Str, password \in Passwords :
         signup_post(c, username, password)
    \/ login_get(c)
    \/ \E username \in Str, password \in Passwords :
         login_post(c, username, password)
    \/ logout(c)
    \/ dashboard(c)
    \/ commitment_new_get(c)
    \/ \E commitment_text \in Str, pct \in PctInputs, deadline \in Deadlines :
         commitment_new_post(c, commitment_text, pct, deadline)
    \/ \E commitment_id \in CommitmentIds :
         commitment_resolve_get(c, commitment_id)
    \/ \E commitment_id \in CommitmentIds, status \in Statuses,
          outcome_notes \in Notes :
         commitment_resolve_post(c, commitment_id, status, outcome_notes)

Spec == Init /\ [][Next]_vars

\* ================================================================ claims
\* vocabulary of the claims, stated on the tables and the cookie directly
Authenticated(c) == \E u \in users : u.id = session[c]
Owns(c, commitment_id) ==
  \E k \in commitments : k.id = commitment_id /\ k.user_id = session[c]
NotFound == RedirectResponse("/dashboard", HTTP_307_DEFAULT)
ToLogin == RedirectResponse("/login", HTTP_307_DEFAULT)
Saved == RedirectResponse("/dashboard", HTTP_303_SEE_OTHER)
IsForm(out, name) == out.code = 200 /\ out.target = name
IsFormError(out, name) == IsForm(out, name) /\ out.error # ""
\* attributes of a row, "undefined" / <<"undefined">> when the row has none
StatusOf(k) == IF "status" \in DOMAIN k THEN k.status ELSE "undefined"
NotesOf(k) ==
  IF "outcome_notes" \in DOMAIN k THEN k.outcome_notes ELSE Some(<<"?">>)
Resolved(k) == StatusOf(k) \in {"completed", "failed"}

\* C1: in every reachable state each Commitment's status is one of open,
\* completed, failed.
C1_StatusIsOneOfThree ==
  \A k \in commitments : StatusOf(k) \in {"open", "completed", "failed"}

\* C2: resolve succeeds exactly once: the owner's resolve of a Commitment that
\* has not been resolved, with status completed or failed, succeeds and
\* writes status and trimmed notes; a resolve of one already resolved is
\* answered with the resolve form and an error and changes nothing.
C2_ResolveExactlyOnce ==
  [][LET r == resp'.req IN
     \A k \in commitments :
       (/\ r.route = "commitment_resolve_post"
        /\ r.args.commitment_id = k.id
        /\ Authenticated(r.client)
        /\ session[r.client] = k.user_id)
       => IF Resolved(k)
          THEN /\ IsFormError(resp'.out, "commitment_resolve.html")
               /\ k \in commitments'
          ELSE r.args.status \in {"completed", "failed"}
               => /\ resp'.out = Saved
                  /\ \E k2 \in commitments' :
                       /\ k2.id = k.id
                       /\ StatusOf(k2) = r.args.status
                       /\ NotesOf(k2) = NotesValue(r.args.outcome_notes)
    ]_vars

\* C3: a resolve POST by an authenticated user with the id of a Commitment
\* the user does not own is answered like one with an id that matches no
\* Commitment, by the NotFound redirect to /dashboard, and changes no
\* Commitment.
C3_ForeignResolveIsNotFound ==
  [][LET r == resp'.req IN
     (/\ r.route = "commitment_resolve_post"
      /\ Authenticated(r.client)
      /\ ~ Owns(r.client, r.args.commitment_id))
     => /\ resp'.out = NotFound
        /\ commitments' = commitments
    ]_vars

\* C3 witness: user B has posted a resolve with the id of A's Commitment and
\* got the NotFound redirect
C3_Witness ==
  /\ resp.req.route = "commitment_resolve_post"
  /\ Authenticated(resp.req.client)
  /\ \E k \in commitments :
       /\ k.id = resp.req.args.commitment_id
       /\ k.user_id # session[resp.req.client]
       /\ \E a \in users : a.id = k.user_id
  /\ resp.req.args.status \in {"completed", "failed"}
  /\ resp.out = NotFound

\* C4: GET /commitments/{id}/resolve shows a Commitment only if its id is the
\* requested id and the caller owns it; when the caller owns no Commitment
\* with the requested id the answer is NotFound.  Stated of the requests
\* the store answers (no 500).
C4_GetForResolveOwnedOnly ==
  LET r == resp.req IN
  (/\ r.route = "commitment_resolve_get"
   /\ Authenticated(r.client)
   /\ resp.out.code # 500)
  => /\ IsForm(resp.out, "commitment_resolve.html")
        => /\ resp.out.shown = <<r.args.commitment_id>>
           /\ Owns(r.client, r.args.commitment_id)
     /\ ~ Owns(r.client, r.args.commitment_id) => resp.out = NotFound

\* C5: the dashboard of an authenticated user lists every Commitment the user
\* owns and none owned by another user.
C5_DashboardListsOwn ==
  LET r == resp.req IN
  (r.route = "dashboard" /\ Authenticated(r.client))
  => /\ IsForm(resp.out, "dashboard.html")
     /\ {resp.out.shown[i] : i \in DOMAIN resp.out.shown} =
          {k.id : k \in {x \in commitments : x.user_id = session[r.client]}}

\* C6: after a signup with valid input (non-empty username and password,
\* username not taken) the User exists, and a login with the stored username
\* and the same password succeeds and binds the session to that User's id.
C6_SignupThenLogin ==
  [][LET r == resp'.req IN
     (/\ r.route = "signup_post"
      /\ ValidSignupInput(r.args.username, r.args.password))
     => \E u \in users' :
          /\ u \notin users
          /\ u.username = strip(r.args.username)
          /\ LoginPostResult(users', u.username, r.args.password) =
               [out |-> Saved, user_id |-> u.id]
    ]_vars

\* C7: a signup whose username belongs to an existing User is answered with
\* the signup form and an error, adds no User and binds no session.
C7_DuplicateSignupRejected ==
  [][LET r == resp'.req IN
     (/\ r.route = "signup_post"
      /\ \E u \in users : u.username = strip(r.args.username))
     => /\ IsFormError(resp'.out, "signup.html")
        /\ users' = users
        /\ session' = session
    ]_vars

\* C8: a create by an authenticated user with text and a parseable deadline
\* persists a Commitment whose declared_confidence_pct is
\* min(100, max(0, confidencePct)).
C8_ConfidenceClamped ==
  [][LET r == resp'.req IN
     (/\ r.route = "commitment_new_post"
      /\ Authenticated(r.client)
      /\ strip(r.args.commitment_text) # <<>>
      /\ IsIsoFormat(r.args.deadline))
     => \E k \in commitments' \ commitments :
          /\ "declared_confidence_pct" \in DOMAIN k
          /\ k.declared_confidence_pct =
               Min2(100, Max2(0, r.args.declared_confidence_pct))
          /\ k.declared_confidence_pct \in 0..100
    ]_vars

\* C9: every authenticated route, called with a session that resolves to no
\* User, answers with a redirect to /login and never with an error status.
AuthenticatedRoutes ==
  {"dashboard", "commitment_new_get", "commitment_new_post",
   "commitment_resolve_get", "commitment_resolve_post"}

C9_UnauthenticatedRedirectsToLogin ==
  [][LET r == resp'.req IN
     (r.route \in AuthenticatedRoutes /\ ~ Authenticated(r.client))
     => /\ resp'.out.target = "/login"
        /\ resp'.out.code \in 300..399
    ]_vars

\* C9 witness: a resolve POST whose cookie names a User that is not in the
\* table was redirected to /login
C9_Witness ==
  /\ resp.req.route = "commitment_resolve_post"
  /\ session[resp.req.client] # NoUser
  /\ ~ Authenticated(resp.req.client)
  /\ resp.out = ToLogin

\* C10: a login that does not succeed, for an unknown username as for a wrong
\* password, is answered with the login form and the message
\* "Invalid credentials." and binds no session.
C10_LoginFailsUniformly ==
  [][LET r == resp'.req IN
     (r.route = "login_post" /\ resp'.out # Saved)
     => /\ resp'.out =
             TemplateResponse("login.html", "Invalid credentials.", NoShown)
        /\ session' = session
    ]_vars

\* a text with nothing but whitespace in it
AllSpaces(s) == \A i \in DOMAIN s : s[i] = " "
CreateForm == "commitment_new.html"

\* C11: a create by an authenticated user whose text is empty after trimming
\* or whose deadline does not parse is answered with the creation form and
\* an error (the text error when the text is empty) and persists nothing.
C11_InvalidCreateRejected ==
  [][LET r == resp'.req IN
     (/\ r.route = "commitment_new_post"
      /\ Authenticated(r.client)
      /\ (AllSpaces(r.args.commitment_text) \/ ~ IsIsoFormat(r.args.deadline)))
     => /\ IsFormError(resp'.out, CreateForm)
        /\ AllSpaces(r.args.commitment_text)
             => resp'.out.error = "Commitment text required."
        /\ commitments' = commitments
    ]_vars

\* C11 witness: a create with a text and a deadline that does not parse got
\* the form back with the deadline error
C11_Witness ==
  /\ resp.req.route = "commitment_new_post"
  /\ Authenticated(resp.req.client)
  /\ ~ AllSpaces(resp.req.args.commitment_text)
  /\ ~ IsIsoFormat(resp.req.args.deadline)
  /\ resp.out = TemplateResponse(CreateForm, "Invalid deadline format.",
                                 NoShown)

\* C12: a create by authenticated user U with a text and a deadline that
\* parses persists exactly one new Commitment, owned by U, open and without
\* outcome_notes, and leaves every other Commitment as it was.
C12_CreatePersistsOneOpen ==
  [][LET r == resp'.req IN
     (/\ r.route = "commitment_new_post"
      /\ Authenticated(r.client)
      /\ ~ AllSpaces(r.args.commitment_text)
      /\ IsIsoFormat(r.args.deadline))
     => /\ resp'.out = Saved
        /\ commitments \subseteq commitments'
        /\ Cardinality(commitments' \ commitments) = 1
        /\ \A k \in commitments' \ commitments :
             /\ k.user_id = session[r.client]
             /\ StatusOf(k) = "open"
             /\ "outcome_notes" \in DOMAIN k => k.outcome_notes = None
    ]_vars

\* C13: logout leaves the session resolving to no User and is answered with
\* the redirect to /login, with or without a session to clear.
C13_LogoutClears ==
  [][LET r == resp'.req IN
     r.route = "logout"
     => /\ session'[r.client] = NoUser
        /\ resp'.out = RedirectResponse("/login", HTTP_303_SEE_OTHER)
    ]_vars

\* C14: the owner's resolve of an open Commitment with a status other than
\* completed or failed is answered with the resolve form and an error and
\* leaves the Commitment as it was.
C14_InvalidStatusRejected ==
  [][LET r == resp'.req IN
     \A k \in commitments :
       (/\ r.route = "commitment_resolve_post"
        /\ r.args.commitment_id = k.id
        /\ Authenticated(r.client)
        /\ session[r.client] = k.user_id
        /\ ~ Resolved(k)
        /\ r.args.status \notin {"completed", "failed"})
       => /\ IsFormError(resp'.out, "commitment_resolve.html")
          /\ k \in commitments'
    ]_vars

\* the notes as a resolve is to store them: trimmed, None when nothing is left
TrimmedNotes(outcome_notes) ==
  IF outcome_notes = None \/ AllSpaces(outcome_notes[1]) THEN None
  ELSE LET t == outcome_notes[1]
           first == CHOOSE i \in DOMAIN t :
                      t[i] # " " /\ \A j \in 1..(i - 1) : t[j] = " "
           last == CHOOSE i \in DOMAIN t :
                     t[i] # " " /\ \A j \in (i + 1)..Len(t) : t[j] = " "
       IN Some(SubSeq(t, first, last))

\* C15: an open Commitment has no outcome_notes, and the owner's resolve of an
\* open Commitment with status completed or failed stores the notes trimmed,
\* or none when the trimmed notes are empty or absent.
C15_NotesSetByResolve ==
  [][LET r == resp'.req IN
     /\ \A k \in commitments' :
          StatusOf(k) = "open" /\ "outcome_notes" \in DOMAIN k
            => k.outcome_notes = None
     /\ \A k \in commitments :
          (/\ r.route = "commitment_resolve_post"
           /\ r.args.commitment_id = k.id
           /\ Authenticated(r.client)
           /\ session[r.client] = k.user_id
           /\ ~ Resolved(k)
           /\ r.args.status \in {"completed", "failed"})
          => \E k2 \in commitments' :
               /\ k2.id = k.id
               /\ "outcome_notes" \in DOMAIN k2
               /\ k2.outcome_notes = TrimmedNotes(r.args.outcome_notes)
    ]_vars

\* position of a stored deadline in time
DeadlineRank(k) ==
  IF "deadline" \in DOMAIN k
  THEN (IF k.deadline = "2025-01-01T00:00:00" THEN 1 ELSE 2)
  ELSE 0
RowOf(id) == CHOOSE k \in commitments : k.id = id

\* C16: the dashboard of an authenticated user is a list in which no entry's
\* deadline is later than the next entry's.
C16_DashboardAscending ==
  LET r == resp.req IN
  (r.route = "dashboard" /\ Authenticated(r.client))
  => /\ IsForm(resp.out, "dashboard.html")
     /\ \A i \in 1..(Len(resp.out.shown) - 1) :
          DeadlineRank(RowOf(resp.out.shown[i])) <=
            DeadlineRank(RowOf(resp.out.shown[i + 1]))

\* C17: a signup with valid input creates one User with the stripped
\* username and binds the requesting session to it; the new User owns no
\* Commitment.
C17_SignupBindsSession ==
  [][LET r == resp'.req IN
     (/\ r.route = "signup_post"
      /\ ValidSignupInput(r.args.username, r.args.password))
     => /\ resp'.out = Saved
        /\ Cardinality(users' \ users) = 1
        /\ \A u \in users' \ users :
             /\ u.username = strip(r.args.username)
             /\ session'[r.client] = u.id
             /\ ~ \E k \in commitments' : k.user_id = u.id
    ]_vars

\* C18: a resolve writes status and notes together: after the owner's resolve
\* of an open Commitment with status completed or failed the stored pair is
\* the whole pair of that request, and no other step changes the stored pair
\* of any Commitment.
PairOf(k) == <<StatusOf(k), NotesOf(k)>>

C18_ResolvePairWhole ==
  [][LET r == resp'.req IN
     \A k \in commitments :
       \E k2 \in commitments' :
         /\ k2.id = k.id
         /\ IF /\ r.route = "commitment_resolve_post"
               /\ r.args.commitment_id = k.id
               /\ Authenticated(r.client)
               /\ session[r.client] = k.user_id
               /\ ~ Resolved(k)
               /\ r.args.status \in {"completed", "failed"}
            THEN PairOf(k2) =
                   <<r.args.status, TrimmedNotes(r.args.outcome_notes)>>
            ELSE PairOf(k2) = PairOf(k)
    ]_vars

====
